---- MODULE Spec2Model ----
(***************************************************************************)
(* Model of the Streamlit tutorial apps of berlin_brains_2023.             *)
(*                                                                         *)
(*  - interactive_apps/solutions/streamlit_fooof_solved.py: a script that  *)
(*    Streamlit re-runs from the top on every widget change (one run = one *)
(*    "cycle"), in one thread per browser session, with the two helper     *)
(*    functions load_data and get_spectrum wrapped by @st.cache_data       *)
(*    (a process-wide cache shared by all sessions).                       *)
(*  - interactive_apps/streamlit_minimal.py and its solution: the pure     *)
(*    function string_creator.                                             *)
(*                                                                         *)
(* Numbers that are floats in the program are integers in thousandths      *)
(* here (1.234 is 1234); a value rounded to two decimals is an integer in  *)
(* hundredths.  Strings handled by string_creator are sequences of         *)
(* one-character strings.                                                  *)
(***************************************************************************)
EXTENDS Integers, Sequences, FiniteSets, TLC

VARIABLES
    load_cache,      \* st.cache_data store of load_data: path -> entry
    spectrum_cache,  \* st.cache_data store of get_spectrum: key -> entry
    locks,           \* compute-value locks held, one per (function, key)
    pc,              \* per session: the line the script run is at
    path,            \* per session: path_to_data, as line 40 of this run set it
    warned,          \* per session: st.warning of line 42 was emitted in this run
    raw,             \* per session: the global `raw` of line 70
    spec,            \* per session: the global `spec` of line 73
    params,          \* per session: the widget values read in lines 90-109
    fm,              \* per session: the FOOOF object of lines 172-175
    display,         \* per session: what lines 201-215 last put on the page
    outcome,         \* per session: how the last (or current) run ended
    loads,           \* per session: executions of load_data's body in this run
    reached,         \* per session: the stages this run has executed, in order
    loadExec,        \* history: executions of load_data's body, per path
    specExec,        \* history: executions of get_spectrum's body, per input raw
    writes,          \* history: the values ever written under each cache key
    history,         \* history: <<path, params, metrics>> of every completed run
    cycles,          \* number of script runs started so far
    sc_args,         \* string_creator: the widget values of the last run
    sc_result,       \* string_creator: what the solved app passed to st.text
    sc_original      \* string_creator: what the original app passed to st.text

pipeVars == <<load_cache, spectrum_cache, locks, pc, path, warned,
              raw, spec, params, fm, display, outcome, loads, reached, loadExec,
              specExec, writes, history, cycles>>
strVars == <<sc_args, sc_result, sc_original>>
vars == <<pipeVars, strVars>>

----------------------------------------------------------------------------
(* Bounds of the model *)

\* script runs started in one behaviour, over all sessions
MaxCycles == 3
\* longest prefix typed into the text input of the minimal app
MaxPrefixLen == 2

Sessions == {"s1", "s2"}

None == "None"

----------------------------------------------------------------------------
(* The storage boundary: what a path resolves to *)

\* directories that hold sub-01/sub-01-raw.fif, with the recording in each
Recordings == {"recA", "recB"}
ValidPaths == {"dirA", "dirB"}
\* None is the shipped default (line 40); "missing" is a path with no such file
Paths == {None, "missing"} \cup ValidPaths

RecordingAt(p) == IF p = "dirA" THEN "recA" ELSE "recB"

\* M/EEG channel names of a recording (lines 71-72)
ch_names(rec) == IF rec = "recA" THEN {"EEG039", "MEG0111"} ELSE {"EEG039", "EEG040"}

----------------------------------------------------------------------------
(* The two cached helper functions (lines 53-61) *)

\* a key the cache holds no value for
NoEntry == [no_entry |-> TRUE]

(* load_data's body, lines 55-56.  Path(None) raises TypeError on line 55;   *)
(* mne.io.read_raw_fif raises FileNotFoundError on line 56 when the file is  *)
(* not there; otherwise the recording is returned.                           *)
load_data(p) ==
    IF p = None THEN [exc |-> "TypeError"]
    ELSE IF p \notin ValidPaths THEN [exc |-> "FileNotFoundError"]
    ELSE [exc |-> None, value |-> [rec |-> RecordingAt(p)]]

(* get_spectrum's body, line 61: it takes no argument and reads the global   *)
(* `raw` of the run that executes it.                                        *)
get_spectrum(r) == [psd_of |-> r.rec]

(* The key st.cache_data files a call under is made of the call's arguments. *)
(* load_data is called with the path (line 70).                              *)
load_data_key(p) == p

(* get_spectrum is called with no argument (line 73): every call has the     *)
(* same key, whatever `raw` is.                                              *)
get_spectrum_key(r) == "get_spectrum()"

SpectrumKeys == {get_spectrum_key([rec |-> rec]) : rec \in Recordings}
LockKeys == ({"load_data"} \X Paths) \cup ({"get_spectrum"} \X SpectrumKeys)

----------------------------------------------------------------------------
(* The Parameter Set: the widgets of lines 90-109 *)

\* st.slider with a two-element value returns an ordered pair (lower <= upper)
FRangeChoices == {<<1, 45>>, <<10, 10>>}
\* peak width limits in thousandths of a Hz; the default of line 97
PeakWidthChoices == {<<500, 12000>>}
\* the default of line 100
MaxNPeaksChoices == {3}
AperiodicModes == {"fixed", "knee"}
\* the defaults of lines 108-109
AnnotateChoices == {FALSE}

ParameterSets(meeg_ch_names) ==
    [channel : meeg_ch_names,
     f_range : {fr \in FRangeChoices : fr[1] <= fr[2]},
     peak_width : PeakWidthChoices,
     max_n_peaks : MaxNPeaksChoices,
     aperiodic_mode : AperiodicModes,
     annotate_peaks : AnnotateChoices,
     annotate_aperiodic : AnnotateChoices]

AllParameterSets == ParameterSets(UNION {ch_names(rec) : rec \in Recordings})

----------------------------------------------------------------------------
(* The fit, lines 169-175.  FOOOF is an external library: it is modelled as  *)
(* a fixed deterministic function of the spectrum of the picked channel, the *)
(* settings and the frequency range.  The numbers stand for the content of   *)
(* the recordings; they are in thousandths.                                  *)

\* the periodic content of a channel: rows <<centre frequency, power, bandwidth>>
ChannelPeaks(rec, ch) ==
    IF rec = "recA" /\ ch = "EEG039"
    THEN << <<10125, 1204, 2500>>, <<21487, 540, 3100>> >>
    ELSE IF rec = "recB" /\ ch = "EEG039"
    THEN << <<9873, 987, 2000>> >>
    ELSE << >>

\* the aperiodic content of a channel: <<offset, exponent>>
ChannelAperiodic(rec, ch) ==
    IF rec = "recA" /\ ch = "EEG039" THEN <<-11437, 1234>>
    ELSE IF rec = "recA" THEN <<-23128, 876>>
    ELSE IF ch = "EEG039" THEN <<-11962, 1518>>
    ELSE <<-12251, 1043>>

FirstN(seq, n) == SubSeq(seq, 1, IF Len(seq) < n THEN Len(seq) ELSE n)

(* FOOOF(...).fit(freqs, psd, freq_range).  An unsuccessful fit leaves the   *)
(* object without a model (has_model false) and does not raise; the inputs   *)
(* on which the library fails are represented by the empty-width range.      *)
FOOOF_fit(rec, par) ==
    LET lo == par.f_range[1]
        hi == par.f_range[2]
        ap == ChannelAperiodic(rec, par.channel)
        inRange(row) == /\ lo * 1000 <= row[1] /\ row[1] <= hi * 1000
                        /\ par.peak_width[1] <= row[3] /\ row[3] <= par.peak_width[2]
        found == FirstN(SelectSeq(ChannelPeaks(rec, par.channel), inRange),
                        par.max_n_peaks)
        base == [power_spectrum |-> <<rec, par.channel>>,
                 freq_range |-> par.f_range,
                 peak_width_limits |-> par.peak_width,
                 max_n_peaks |-> par.max_n_peaks,
                 aperiodic_mode |-> par.aperiodic_mode]
    IN  IF hi <= lo
        THEN base @@ [has_model |-> FALSE, aperiodic_params_ |-> << >>,
                      peak_params_ |-> << >>]
        ELSE base @@
             [has_model |-> TRUE,
              aperiodic_params_ |->
                  IF par.aperiodic_mode = "fixed"
                  THEN <<ap[1] + 3 * hi, ap[2] + 7 * hi - 2 * lo>>
                  ELSE <<ap[1] + 3 * hi + 111, 2347, ap[2] + 7 * hi - 2 * lo + 222>>,
              peak_params_ |-> found]

(* Python's round(x, 2): to the nearest hundredth, ties to the even one.     *)
(* x is in thousandths, the result in hundredths.                            *)
round2(x) ==
    LET q == x \div 10
        r == x % 10
    IN  IF r < 5 THEN q
        ELSE IF r > 5 THEN q + 1
        ELSE IF q % 2 = 0 THEN q ELSE q + 1

\* as metrics_column, with the exponent read at index 1 instead of -1
metrics_column_second(f) ==
    << <<"Offset", round2(f.aperiodic_params_[1])>>,
       <<"Exponent", round2(f.aperiodic_params_[2])>> >>
    \o (IF Len(f.peak_params_) # 0
        THEN << <<"Peak frequency (Hz)", round2(f.peak_params_[1][1])>> >>
        ELSE << >>)

(* The right column, lines 208-215: the st.metric calls in order.            *)
metrics_column(f) ==
    << <<"Offset", round2(f.aperiodic_params_[1])>>,
       <<"Exponent", round2(f.aperiodic_params_[Len(f.aperiodic_params_)])>> >>
    \o (IF Len(f.peak_params_) # 0
        THEN << <<"Peak frequency (Hz)", round2(f.peak_params_[1][1])>> >>
        ELSE << >>)

(* The left column, lines 179-188 and 204-205: the figure of the fit.        *)
figure_of(f, par) ==
    [model |-> f, annotate_peaks |-> par.annotate_peaks,
     annotate_aperiodic |-> par.annotate_aperiodic]

----------------------------------------------------------------------------
(* string_creator of the minimal app *)

\* the options of the select box (streamlit_minimal.py, line 28)
Symbols == {"W", "E"}
\* the slider of lines 29-31 of the solved app
LengthMin == 1
LengthMax == 10
\* the characters a prefix is typed from
PrefixChars == {"a", "b"}

RECURSIVE SeqsUpTo(_, _)
SeqsUpTo(S, n) ==
    IF n = 0 THEN {<< >>}
    ELSE LET shorter == SeqsUpTo(S, n - 1)
         IN  shorter \cup {Append(q, c) : q \in shorter, c \in S}

Prefixes == SeqsUpTo(PrefixChars, MaxPrefixLen)

\* Python's str * int
RECURSIVE str_times(_, _)
str_times(str, n) == IF n <= 0 THEN << >> ELSE str \o str_times(str, n - 1)

\* Python's sep.join(list)
RECURSIVE str_join(_, _)
str_join(sep, list) ==
    IF list = << >> THEN << >>
    ELSE IF Len(list) = 1 THEN list[1]
    ELSE list[1] \o sep \o str_join(sep, Tail(list))

\* Python's [x] * n
list_times(x, n) == [i \in 1..n |-> x]

(* streamlit_minimal.py, lines 16-18 *)
string_creator_original(symbol, length) == str_times(<<symbol>>, length)

\* as string_creator, with the lines of the square concatenated and not joined
string_creator_unjoined(symbol, length, prefix, make_square) ==
    LET result == IF make_square
                  THEN str_times(str_times(<<symbol>>, length), length)
                  ELSE str_times(<<symbol>>, length)
    IN  IF prefix # << >>
        THEN prefix \o <<":", "\n">> \o result
        ELSE result

(* solutions/streamlit_minimal_solved.py, lines 10-18 *)
string_creator(symbol, length, prefix, make_square) ==
    LET result == IF make_square
                  THEN str_join(<<"\n">>, list_times(str_times(<<symbol>>, length), length))
                  ELSE str_times(<<symbol>>, length)
    IN  IF prefix # << >>
        THEN prefix \o <<":", "\n">> \o result
        ELSE result

----------------------------------------------------------------------------
(* Initial state: the server has started, no session has run the script,    *)
(* and every page is empty.                                                  *)

\* nothing put on the page yet
NoPayload == [empty |-> TRUE]
\* a global of the script that this run has not assigned yet
Undefined == [undefined |-> TRUE]

PipeInit ==
    /\ load_cache = [p \in {load_data_key(q) : q \in Paths} |-> NoEntry]
    /\ spectrum_cache = [k \in SpectrumKeys |-> NoEntry]
    /\ locks = {}
    /\ pc = [s \in Sessions |-> "idle"]
    /\ path = [s \in Sessions |-> None]
    /\ warned = [s \in Sessions |-> FALSE]
    /\ raw = [s \in Sessions |-> Undefined]
    /\ spec = [s \in Sessions |-> Undefined]
    /\ params = [s \in Sessions |-> Undefined]
    /\ fm = [s \in Sessions |-> Undefined]
    /\ display = [s \in Sessions |-> NoPayload]
    /\ outcome = [s \in Sessions |-> "not run"]
    /\ loads = [s \in Sessions |-> 0]
    /\ reached = [s \in Sessions |-> << >>]
    /\ loadExec = [p \in Paths |-> 0]
    /\ specExec = [rec \in Recordings |-> 0]
    /\ writes = [k \in LockKeys |-> {}]
    /\ history = {}
    /\ cycles = 0

StrInit ==
    /\ sc_args = Undefined
    /\ sc_result = << >>
    /\ sc_original = << >>

Init == PipeInit /\ StrInit

----------------------------------------------------------------------------
(* The FOOOF app: one script run, step by step *)

\* line 41: the condition of the warning
\* as warns, the warning of lines 41-42 left out
warns_never(p) == FALSE
warns(p) == p = None

(* A run starts: lines 23-42, with the script as saved at that moment (the   *)
(* user edits line 40 between runs, STEP 0): p is the value line 40 assigns. *)
(* The script's globals are those of a fresh namespace; what the page shows  *)
(* stays until this run replaces it.                                         *)
Rerun(s, p) ==
    /\ pc[s] = "idle"
    /\ cycles < MaxCycles
    /\ cycles' = cycles + 1
    /\ path' = [path EXCEPT ![s] = p]
    /\ warned' = [warned EXCEPT ![s] = warns(p)]
    /\ reached' = [reached EXCEPT ![s] = << >>]
    /\ raw' = [raw EXCEPT ![s] = Undefined]
    /\ spec' = [spec EXCEPT ![s] = Undefined]
    /\ params' = [params EXCEPT ![s] = Undefined]
    /\ fm' = [fm EXCEPT ![s] = Undefined]
    /\ loads' = [loads EXCEPT ![s] = 0]
    /\ outcome' = [outcome EXCEPT ![s] = "running"]
    /\ pc' = [pc EXCEPT ![s] = "load_data"]
    /\ UNCHANGED <<load_cache, spectrum_cache, locks, display, loadExec,
                   specExec, writes, history>>
    /\ UNCHANGED strVars

\* as lock_free, for a cache that lets every session compute at once
lock_unguarded(k) == TRUE
\* the compute lock of a key is not held: with it, st.cache_data never has two
\* sessions computing the value of one key at the same time
lock_free(k) == k \notin locks

\* as cache_read, for a function left without the decorator: every call
\* runs the body
cache_read_undecorated(cache, k) == NoEntry
\* what a decorated function finds in its cache under a key (lines 53 and 59)
cache_read(cache, k) == cache[k]

\* the run of session s has executed one more stage
done_stage(s, stage) == [reached EXCEPT ![s] = Append(@, stage)]

(* line 70, load_data(path_to_data): the cache is read without a lock.       *)
LoadLookup(s) ==
    /\ pc[s] = "load_data"
    /\ LET e == cache_read(load_cache, load_data_key(path[s]))
       IN  IF e # NoEntry
           THEN /\ raw' = [raw EXCEPT ![s] = e]
                /\ pc' = [pc EXCEPT ![s] = "get_spectrum"]
                /\ reached' = done_stage(s, "load_data")
           ELSE /\ pc' = [pc EXCEPT ![s] = "load_data_miss"]
                /\ UNCHANGED <<raw, reached>>
    /\ UNCHANGED <<load_cache, spectrum_cache, locks, path, warned, spec, params,
                   fm, display, outcome, loads, loadExec, specExec, writes,
                   history, cycles>>
    /\ UNCHANGED strVars

(* On a miss the lock of the key is taken and the cache read again: another  *)
(* session may have computed the value meanwhile.                            *)
LoadLock(s) ==
    /\ pc[s] = "load_data_miss"
    /\ lock_free(<<"load_data", load_data_key(path[s])>>)
    /\ LET e == cache_read(load_cache, load_data_key(path[s]))
       IN  IF e # NoEntry
           THEN /\ raw' = [raw EXCEPT ![s] = e]
                /\ pc' = [pc EXCEPT ![s] = "get_spectrum"]
                /\ reached' = done_stage(s, "load_data")
                /\ locks' = locks
           ELSE /\ pc' = [pc EXCEPT ![s] = "load_data_body"]
                /\ locks' = locks \cup {<<"load_data", load_data_key(path[s])>>}
                /\ UNCHANGED <<raw, reached>>
    /\ UNCHANGED <<load_cache, spectrum_cache, path, warned, spec, params, fm,
                   display, outcome, loads, loadExec, specExec, writes, history,
                   cycles>>
    /\ UNCHANGED strVars

(* The body runs (lines 55-56).  A value it returns is written to the cache  *)
(* and returned; an exception it raises is stored nowhere, leaves the lock   *)
(* and ends the run, since the script catches nothing.                       *)
LoadBody(s) ==
    /\ pc[s] = "load_data_body"
    /\ LET k == load_data_key(path[s])
           r == load_data(path[s])
       IN  /\ loadExec' = [loadExec EXCEPT ![path[s]] = @ + 1]
           /\ loads' = [loads EXCEPT ![s] = @ + 1]
           /\ locks' = locks \ {<<"load_data", k>>}
           /\ IF r.exc # None
              THEN /\ outcome' = [outcome EXCEPT ![s] = r.exc]
                   /\ pc' = [pc EXCEPT ![s] = "idle"]
                   /\ UNCHANGED <<load_cache, raw, writes, reached>>
              ELSE /\ load_cache' = [load_cache EXCEPT ![k] = r.value]
                   /\ writes' = [writes EXCEPT ![<<"load_data", k>>] = @ \cup {r.value}]
                   /\ raw' = [raw EXCEPT ![s] = r.value]
                   /\ pc' = [pc EXCEPT ![s] = "get_spectrum"]
                   /\ reached' = done_stage(s, "load_data")
                   /\ outcome' = outcome
    /\ UNCHANGED <<spectrum_cache, path, warned, spec, params, fm, display,
                   specExec, history, cycles>>
    /\ UNCHANGED strVars

(* line 73, get_spectrum(): the cache is read without a lock, under the     *)
(* key of the call.  Lines 71-72 before it only read raw.info.               *)
SpectrumLookup(s) ==
    /\ pc[s] = "get_spectrum"
    /\ LET e == cache_read(spectrum_cache, get_spectrum_key(raw[s]))
       IN  IF e # NoEntry
           THEN /\ spec' = [spec EXCEPT ![s] = e]
                /\ pc' = [pc EXCEPT ![s] = "widgets"]
                /\ reached' = done_stage(s, "get_spectrum")
           ELSE /\ pc' = [pc EXCEPT ![s] = "get_spectrum_miss"]
                /\ UNCHANGED <<spec, reached>>
    /\ UNCHANGED <<load_cache, spectrum_cache, locks, path, warned, raw, params,
                   fm, display, outcome, loads, loadExec, specExec, writes,
                   history, cycles>>
    /\ UNCHANGED strVars

SpectrumLock(s) ==
    /\ pc[s] = "get_spectrum_miss"
    /\ lock_free(<<"get_spectrum", get_spectrum_key(raw[s])>>)
    /\ LET e == cache_read(spectrum_cache, get_spectrum_key(raw[s]))
       IN  IF e # NoEntry
           THEN /\ spec' = [spec EXCEPT ![s] = e]
                /\ pc' = [pc EXCEPT ![s] = "widgets"]
                /\ reached' = done_stage(s, "get_spectrum")
                /\ locks' = locks
           ELSE /\ pc' = [pc EXCEPT ![s] = "get_spectrum_body"]
                /\ locks' = locks \cup {<<"get_spectrum", get_spectrum_key(raw[s])>>}
                /\ UNCHANGED <<spec, reached>>
    /\ UNCHANGED <<load_cache, spectrum_cache, path, warned, raw, params, fm,
                   display, outcome, loads, loadExec, specExec, writes, history,
                   cycles>>
    /\ UNCHANGED strVars

(* The body runs (line 61) on the global `raw` of this run; its value is     *)
(* written to the cache under the key of the call and returned.              *)
SpectrumBody(s) ==
    /\ pc[s] = "get_spectrum_body"
    /\ LET k == get_spectrum_key(raw[s])
           v == get_spectrum(raw[s])
       IN  /\ specExec' = [specExec EXCEPT ![raw[s].rec] = @ + 1]
           /\ locks' = locks \ {<<"get_spectrum", k>>}
           /\ spectrum_cache' = [spectrum_cache EXCEPT ![k] = v]
           /\ writes' = [writes EXCEPT ![<<"get_spectrum", k>>] = @ \cup {v}]
           /\ spec' = [spec EXCEPT ![s] = v]
           /\ pc' = [pc EXCEPT ![s] = "widgets"]
           /\ reached' = done_stage(s, "get_spectrum")
    /\ UNCHANGED <<load_cache, path, warned, raw, params, fm, display, outcome,
                   loads, loadExec, history, cycles>>
    /\ UNCHANGED strVars

(* STEP 2, lines 90-109: the widgets return the user's current values; the   *)
(* channel is one of the channel names of this run's raw (lines 71-72, 92).  *)
Widgets(s, par) ==
    /\ pc[s] = "widgets"
    /\ par \in ParameterSets(ch_names(raw[s].rec))
    /\ params' = [params EXCEPT ![s] = par]
    /\ pc' = [pc EXCEPT ![s] = "fit"]
    /\ reached' = done_stage(s, "widgets")
    /\ UNCHANGED <<load_cache, spectrum_cache, locks, path, warned, raw, spec, fm,
                   display, outcome, loads, loadExec, specExec, writes, history,
                   cycles>>
    /\ UNCHANGED strVars

\* lines 172-175: a new FOOOF object is fitted to this run's spectrum and widgets
\* as fit_stage, freq_range=f_range left out of line 175
fit_stage_default_range(s) ==
    FOOOF_fit(spec[s].psd_of, [params[s] EXCEPT !.f_range = <<1, 45>>])
\* as fit_stage, the fit of the page reused when there is one
fit_stage_reused(s) ==
    IF display[s] # NoPayload THEN display[s].figure.model
    ELSE FOOOF_fit(spec[s].psd_of, params[s])
fit_stage(s) == FOOOF_fit(spec[s].psd_of, params[s])

(* STEP 4, lines 169-175.  spec.get_data(picks=channel) raises ValueError    *)
(* when the spectrum has no such channel; otherwise the fit is run.          *)
Fit(s) ==
    /\ pc[s] = "fit"
    /\ IF params[s].channel \notin ch_names(spec[s].psd_of)
       THEN /\ outcome' = [outcome EXCEPT ![s] = "ValueError"]
            /\ pc' = [pc EXCEPT ![s] = "idle"]
            /\ UNCHANGED <<fm, reached>>
       ELSE /\ fm' = [fm EXCEPT ![s] = fit_stage(s)]
            /\ pc' = [pc EXCEPT ![s] = "plot"]
            /\ reached' = done_stage(s, "fit")
            /\ outcome' = outcome
    /\ UNCHANGED <<load_cache, spectrum_cache, locks, path, warned, raw, spec,
                   params, display, loads, loadExec, specExec, writes, history,
                   cycles>>
    /\ UNCHANGED strVars

\* line 180: plot_annotated_model refuses an object without a model
\* as plot_raises, a model without peaks refused too
plot_raises_without_peaks(f) == ~f.has_model \/ Len(f.peak_params_) = 0
plot_raises(f) == ~f.has_model

\* lines 201-215: the two columns
render(f, par) == [figure |-> figure_of(f, par), metrics |-> metrics_column(f)]

(* Lines 179-215.  plot_annotated_model (line 180) raises NoModelError for   *)
(* an object without a model, and the script catches nothing; otherwise the  *)
(* figure and the metrics are put on the page and the run is complete.       *)
PlotAndDisplay(s) ==
    /\ pc[s] = "plot"
    /\ pc' = [pc EXCEPT ![s] = "idle"]
    /\ IF plot_raises(fm[s])
       THEN /\ outcome' = [outcome EXCEPT ![s] = "NoModelError"]
            /\ UNCHANGED <<display, history, reached>>
       ELSE /\ display' = [display EXCEPT ![s] = render(fm[s], params[s])]
            /\ outcome' = [outcome EXCEPT ![s] = "done"]
            /\ reached' = [reached EXCEPT ![s] = @ \o <<"plot", "display">>]
            /\ history' = history \cup
                   {<<path[s], params[s], metrics_column(fm[s])>>}
    /\ UNCHANGED <<load_cache, spectrum_cache, locks, path, warned, raw, spec,
                   params, fm, loads, loadExec, specExec, writes, cycles>>
    /\ UNCHANGED strVars

Next ==
    \/ \E s \in Sessions : \E p \in Paths : Rerun(s, p)
    \/ \E s \in Sessions : LoadLookup(s)
    \/ \E s \in Sessions : LoadLock(s)
    \/ \E s \in Sessions : LoadBody(s)
    \/ \E s \in Sessions : SpectrumLookup(s)
    \/ \E s \in Sessions : SpectrumLock(s)
    \/ \E s \in Sessions : SpectrumBody(s)
    \/ \E s \in Sessions : \E par \in AllParameterSets : Widgets(s, par)
    \/ \E s \in Sessions : Fit(s)
    \/ \E s \in Sessions : PlotAndDisplay(s)

Spec == Init /\ [][Next]_vars

----------------------------------------------------------------------------
(* The minimal app: one script run (solved app, lines 23-42; original app,   *)
(* lines 26-40) with the widget values the user has set.                     *)

StringRun(symbol, length, prefix, make_square) ==
    /\ sc_args' = [symbol |-> symbol, length |-> length, prefix |-> prefix,
                   make_square |-> make_square]
    /\ sc_result' = string_creator(symbol, length, prefix, make_square)
    /\ sc_original' = string_creator_original(symbol, length)
    /\ UNCHANGED pipeVars

StrNext ==
    \E symbol \in Symbols, length \in LengthMin..LengthMax,
       prefix \in Prefixes, make_square \in BOOLEAN :
        StringRun(symbol, length, prefix, make_square)

SpecStr == Init /\ [][StrNext]_vars

----------------------------------------------------------------------------
(* Properties *)

Finished(s) == pc[s] = "idle" /\ outcome[s] # "not run"
LoadErrors == {"TypeError", "FileNotFoundError"}

(* C1, as stated: over any sequence of runs the body of load_data executes   *)
(* at most once per distinct path, and the body of get_spectrum at most once *)
(* per distinct input.                                                       *)
C1_OncePerPath ==
    /\ \A p \in Paths : loadExec[p] <= 1
    /\ \A rec \in Recordings : specExec[rec] <= 1

(* C1, amended: the body of load_data executes at most once per distinct     *)
(* path for which it returns a value (a body that raises stores nothing, and *)
(* the next run with that path executes it again), the body of get_spectrum  *)
(* at most once per distinct input, and every call of load_data that returns *)
(* returns the one value the first execution for that path produced; a call  *)
(* that did not execute the body is a hit on that value.                     *)
C1_OncePerLoadedPath ==
    /\ \A p \in ValidPaths : loadExec[p] <= 1
    /\ \A rec \in Recordings : specExec[rec] <= 1
    /\ \A s \in Sessions :
           raw[s] # Undefined =>
               /\ writes[<<"load_data", path[s]>>] = {raw[s]}
               /\ loadExec[path[s]] = 1
               /\ raw[s].rec = RecordingAt(path[s])

\* a second call with a path already loaded: a hit, in a run after the first
C1_Witness ==
    \E s \in Sessions :
        /\ raw[s] # Undefined
        /\ loads[s] = 0
        /\ loadExec[path[s]] = 1
        /\ cycles >= 2

(* C2: in every run that reaches the display stage, the FOOOF object was     *)
(* fitted in that run with the settings, the frequency range and the channel *)
(* the widgets returned in that run, and the figure and the metrics on the   *)
(* page are those of that object.                                            *)
C2_FitOfThisRun ==
    \A s \in Sessions :
        outcome[s] = "done" =>
            /\ fm[s].freq_range = params[s].f_range
            /\ fm[s].peak_width_limits = params[s].peak_width
            /\ fm[s].max_n_peaks = params[s].max_n_peaks
            /\ fm[s].aperiodic_mode = params[s].aperiodic_mode
            /\ fm[s].power_spectrum = <<spec[s].psd_of, params[s].channel>>
            /\ display[s].figure.model = fm[s]
            /\ display[s].figure.annotate_peaks = params[s].annotate_peaks
            /\ display[s].figure.annotate_aperiodic = params[s].annotate_aperiodic
            /\ display[s].metrics = metrics_column(fm[s])

\* a run displayed its fit after an earlier run with other parameters, its
\* data coming from the caches
C2_Witness ==
    \E s \in Sessions :
        /\ outcome[s] = "done"
        /\ loads[s] = 0
        /\ \E h \in history : h[2] # params[s] /\ h[2].channel = params[s].channel

(* C3: the spectrum a run works on is the spectrum of the raw data that run  *)
(* loaded.                                                                   *)
C3_SpectrumOfThisRaw ==
    \A s \in Sessions :
        spec[s] # Undefined => spec[s] = get_spectrum(raw[s])

(* C5, as stated: a run whose path does not resolve to a data file emits the *)
(* warning, ends with the load error, executes no later stage and does not   *)
(* retry the load.                                                           *)
C5_WarnedAndFatal ==
    \A s \in Sessions :
        (Finished(s) /\ path[s] \notin ValidPaths) =>
            /\ warned[s]
            /\ outcome[s] \in LoadErrors
            /\ reached[s] = << >>
            /\ loads[s] = 1

(* C5, amended: a run whose path does not resolve to a data file ends with   *)
(* the error load_data raised (TypeError for None, FileNotFoundError for a   *)
(* path without the file), executes no later stage and does not retry the    *)
(* load; the warning is emitted if and only if the path is None.             *)
C5_FatalWarnedOnlyForNone ==
    \A s \in Sessions :
        /\ warned[s] <=> (outcome[s] # "not run" /\ path[s] = None)
        /\ path[s] \notin ValidPaths =>
               /\ reached[s] = << >>
               /\ raw[s] = Undefined /\ spec[s] = Undefined /\ fm[s] = Undefined
               /\ loads[s] <= 1
        /\ (Finished(s) /\ path[s] \notin ValidPaths) =>
               /\ outcome[s] = (IF path[s] = None THEN "TypeError"
                                ELSE "FileNotFoundError")
               /\ loads[s] = 1

\* one run failed on None and one on a path without the file
C5_Witness ==
    \E s, u \in Sessions :
        /\ Finished(s) /\ path[s] = None /\ outcome[s] = "TypeError"
        /\ Finished(u) /\ path[u] = "missing" /\ outcome[u] = "FileNotFoundError"

(* C6, as stated: the fit-and-render stage never ends a run with an error;   *)
(* a fit without a model is rendered as a "no result" state.                 *)
C6_NeverPropagates ==
    \A s \in Sessions :
        (Finished(s) /\ fm[s] # Undefined) => outcome[s] = "done"

(* C6, amended: once the fit has run, the stage ends the run without error   *)
(* and with the metrics on the page exactly when the fit has a model; when   *)
(* it has none, NoModelError leaves line 180 uncaught and the run displays   *)
(* nothing.                                                                  *)
C6_ErrorIffNoModel ==
    \A s \in Sessions :
        (Finished(s) /\ fm[s] # Undefined) =>
            /\ fm[s].has_model =>
                   /\ outcome[s] = "done"
                   /\ reached[s] = <<"load_data", "get_spectrum", "widgets",
                                     "fit", "plot", "display">>
            /\ ~fm[s].has_model =>
                   /\ outcome[s] = "NoModelError"
                   /\ reached[s] = <<"load_data", "get_spectrum", "widgets", "fit">>

\* one run ended on a fit without a model, another displayed a model without peaks
C6_Witness ==
    \E s, u \in Sessions :
        /\ Finished(s) /\ fm[s] # Undefined /\ ~fm[s].has_model
        /\ Finished(u) /\ fm[u] # Undefined /\ fm[u].has_model
        /\ Len(fm[u].peak_params_) = 0

C8_AppendOnly ==
    /\ \A p \in Paths :
           /\ Cardinality(writes[<<"load_data", load_data_key(p)>>]) <= 1
           /\ writes[<<"load_data", load_data_key(p)>>] =
                  {load_cache[load_data_key(p)]} \ {NoEntry}
    /\ \A k \in SpectrumKeys :
           /\ Cardinality(writes[<<"get_spectrum", k>>]) <= 1
           /\ writes[<<"get_spectrum", k>>] = {spectrum_cache[k]} \ {NoEntry}
    /\ \A s \in Sessions :
           /\ raw[s] # Undefined => raw[s] = load_cache[load_data_key(path[s])]
           /\ spec[s] # Undefined => spec[s] = spectrum_cache[get_spectrum_key(raw[s])]

\* two sessions with different raw data missed the same key: one computes the
\* value, the other waits for the lock
C8_Witness ==
    \E s, u \in Sessions :
        /\ pc[s] = "get_spectrum_body"
        /\ pc[u] = "get_spectrum_miss"
        /\ raw[s] # raw[u]

\* v, in hundredths, is x, in thousandths, rounded to the nearest hundredth
IsRounded(v, x) == 10 * v - x \in -5..5

(* C9, as stated: the page of a completed run carries the first aperiodic    *)
(* parameter as the offset, the last one as the exponent, and the centre     *)
(* frequency of the first peak if and only if there is a peak.               *)
C9_MetricsAreTheParameters ==
    \A s \in Sessions :
        outcome[s] = "done" =>
            LET m == display[s].metrics
                ap == fm[s].aperiodic_params_
            IN  /\ m[1][1] = "Offset" /\ 10 * m[1][2] = ap[1]
                /\ m[2][1] = "Exponent" /\ 10 * m[2][2] = ap[Len(ap)]
                /\ Len(m) = 3 <=> Len(fm[s].peak_params_) >= 1
                /\ Len(m) = 3 => 10 * m[3][2] = fm[s].peak_params_[1][1]

(* C9, amended: the page of a completed run carries the first aperiodic      *)
(* parameter rounded to two decimals as the offset, the last one rounded to  *)
(* two decimals as the exponent, and a peak frequency if and only if the fit *)
(* has a peak: the centre frequency of the first peak, rounded to two        *)
(* decimals.                                                                 *)
C9_MetricsAreRounded ==
    \A s \in Sessions :
        outcome[s] = "done" =>
            LET m == display[s].metrics
                ap == fm[s].aperiodic_params_
                pk == fm[s].peak_params_
            IN  /\ Len(m) \in {2, 3}
                /\ m[1][1] = "Offset" /\ IsRounded(m[1][2], ap[1])
                /\ m[2][1] = "Exponent" /\ IsRounded(m[2][2], ap[Len(ap)])
                /\ Len(m) = 3 <=> Len(pk) >= 1
                /\ Len(m) = 3 => /\ m[3][1] = "Peak frequency (Hz)"
                                 /\ IsRounded(m[3][2], pk[1][1])

\* a completed run in knee mode (three aperiodic parameters) with two peaks
C9_Witness ==
    \E s \in Sessions :
        /\ outcome[s] = "done"
        /\ Len(fm[s].aperiodic_params_) = 3
        /\ Len(fm[s].peak_params_) = 2

(* C10: the solved string_creator returns `length` copies of the symbol on   *)
(* one line, or with make_square `length` lines of `length` symbols joined   *)
(* by newlines, after prefix + ":\n" exactly when the prefix is not empty;   *)
(* with an empty prefix and no square it returns what the original           *)
(* two-argument string_creator returns.                                      *)
C10_StringCreator ==
    sc_args # Undefined =>
        LET n == sc_args.length
            pre == sc_args.prefix
            start == IF pre = << >> THEN 0 ELSE Len(pre) + 2
            bodyLen == IF sc_args.make_square THEN n * n + (n - 1) ELSE n
        IN  /\ Len(sc_result) = start + bodyLen
            /\ pre # << >> =>
                   /\ \A i \in 1..Len(pre) : sc_result[i] = pre[i]
                   /\ sc_result[Len(pre) + 1] = ":"
                   /\ sc_result[Len(pre) + 2] = "\n"
            /\ \A i \in 1..bodyLen :
                   sc_result[start + i] =
                       IF sc_args.make_square /\ i % (n + 1) = 0
                       THEN "\n" ELSE sc_args.symbol
            /\ (pre = << >> /\ ~sc_args.make_square) => sc_result = sc_original
            /\ Len(sc_original) = n
            /\ \A i \in 1..n : sc_original[i] = sc_args.symbol

\* a square of the largest size under a prefix
C10_Witness ==
    /\ sc_args # Undefined
    /\ sc_args.make_square
    /\ sc_args.length = LengthMax
    /\ sc_args.prefix # << >>

====
